---- MODULE Spec2Model ----
(***************************************************************************)
(* Piece table of src/lib.rs: two text buffers (src, added), a vector of   *)
(* pieces, and the edit operations insert_at / remove_range / to_string.   *)
(*                                                                         *)
(* A Rust String is modelled as its UTF-8 byte sequence (a sequence of     *)
(* integers 0..255); a char is its Unicode scalar value.  Byte offsets are *)
(* 0-based as in the source; vector indices are 1-based (Rust index + 1).  *)
(* A panic is modelled as a call that returns an error result and leaves   *)
(* the table as the panicking code left it (here: always untouched, since  *)
(* every panic site precedes the first mutation of the call).              *)
(***************************************************************************)
EXTENDS Integers, Sequences, FiniteSets, TLC

VARIABLES src, added, table, last

vars == <<src, added, table, last>>

\* Bounds of the model.
MaxPieces == 3
MaxAdded == 4
MaxChars == 4

\* ------------------------------------------------------------------------
\* UTF-8: char::len_utf8, char::encode_utf8, str::chars, str boundaries
\* ------------------------------------------------------------------------

len_utf8(ch) ==
    IF ch < 128 THEN 1 ELSE IF ch < 2048 THEN 2 ELSE IF ch < 65536 THEN 3 ELSE 4

encode_utf8(ch) ==
    IF ch < 128 THEN <<ch>>
    ELSE IF ch < 2048 THEN <<192 + (ch \div 64), 128 + (ch % 64)>>
    ELSE IF ch < 65536
         THEN <<224 + (ch \div 4096), 128 + ((ch \div 64) % 64), 128 + (ch % 64)>>
    ELSE <<240 + (ch \div 262144), 128 + ((ch \div 4096) % 64),
           128 + ((ch \div 64) % 64), 128 + (ch % 64)>>

\* The String holding the given chars.
RECURSIVE str(_)
str(cs) == IF cs = <<>> THEN <<>> ELSE encode_utf8(Head(cs)) \o str(Tail(cs))

is_continuation(b) == b >= 128 /\ b < 192

\* Width announced by a leading byte (a stray continuation byte counts as 1).
lead_width(b) ==
    IF b < 192 THEN 1 ELSE IF b < 224 THEN 2 ELSE IF b < 240 THEN 3 ELSE 4

lead_bits(b) ==
    IF b < 128 THEN b
    ELSE IF b < 192 THEN 65533
    ELSE IF b < 224 THEN b - 192 ELSE IF b < 240 THEN b - 224 ELSE b - 240

RECURSIVE decode_tail(_, _)
decode_tail(acc, bs) ==
    IF bs = <<>> THEN acc ELSE decode_tail(acc * 64 + (Head(bs) - 128), Tail(bs))

\* str::chars: the scalar values encoded by the bytes, in order.
RECURSIVE chars(_)
chars(s) ==
    IF s = <<>> THEN <<>>
    ELSE LET w == lead_width(s[1])
             n == IF w > Len(s) THEN Len(s) ELSE w
         IN  <<decode_tail(lead_bits(s[1]), SubSeq(s, 2, n))>>
                 \o chars(SubSeq(s, n + 1, Len(s)))

\* str::is_char_boundary for a 0-based byte index.
is_char_boundary(s, i) ==
    i = 0 \/ i = Len(s) \/ (i > 0 /\ i < Len(s) /\ ~is_continuation(s[i + 1]))

\* ------------------------------------------------------------------------
\* Utf8Offset, Piece, split_piece
\* ------------------------------------------------------------------------

Utf8Offset_new(byte_size, utf8_size) == [utf8 |-> utf8_size, byte |-> byte_size]

Utf8Offset_from_str(utf8_str) ==
    [utf8 |-> Len(chars(utf8_str)), byte |-> Len(utf8_str)]

RECURSIVE sum_len_utf8(_, _)
sum_len_utf8(cs, n) ==
    IF n = 0 \/ cs = <<>> THEN 0
    ELSE len_utf8(Head(cs)) + sum_len_utf8(Tail(cs), n - 1)

\* Mutant of to_byte_offset: the char index taken for the byte index.
to_byte_offset_as_chars(data, unicode_offset) ==
    IF unicode_offset <= Len(chars(data)) THEN unicode_offset ELSE Len(chars(data))

\* Byte index of the nth char of data.
to_byte_offset(data, unicode_offset) == sum_len_utf8(chars(data), unicode_offset)

Piece_new(begin, len, location) ==
    [begin |-> begin, len |-> len, location |-> location]

\* Mutant of Piece_from_str: begin taken after the text was appended.
Piece_from_str_after_append(data, begin) ==
    [begin |-> begin + Len(data), len |-> Utf8Offset_from_str(data),
     location |-> "Added"]

Piece_from_str(data, begin) ==
    [begin |-> begin, len |-> Utf8Offset_from_str(data), location |-> "Added"]

\* Piece::range as the pair (first byte, one past the last byte).
Piece_range(piece) == [start |-> piece.begin, end |-> piece.begin + piece.len.byte]

\* The two debug assertions of split_piece; without them (release build)
\* the subtractions below wrap around.
split_piece_ok(piece, offset) ==
    piece.len.byte >= offset.byte /\ piece.len.utf8 >= offset.utf8

\* Mutant of split_piece: next_piece begins where the piece begins.
split_piece_same_begin(piece, offset) ==
    [prev |-> Piece_new(piece.begin, offset, piece.location),
     next |-> Piece_new(piece.begin,
                        Utf8Offset_new(piece.len.byte - offset.byte,
                                       piece.len.utf8 - offset.utf8),
                        piece.location)]

split_piece(piece, offset) ==
    LET prev_piece == Piece_new(piece.begin, offset, piece.location)
        begin == offset.byte + piece.begin
        byte_len == piece.len.byte - offset.byte
        utf8_len == piece.len.utf8 - offset.utf8
        next_piece == Piece_new(begin, Utf8Offset_new(byte_len, utf8_len), piece.location)
    IN  [prev |-> prev_piece, next |-> next_piece]

\* ------------------------------------------------------------------------
\* PieceTable
\* ------------------------------------------------------------------------

buffer_of(piece) == IF piece.location = "Added" THEN added ELSE src

\* &buf[range] panics unless the range is ordered, in bounds and on boundaries.
slice_ok(buf, r) ==
    /\ r.start <= r.end
    /\ r.end <= Len(buf)
    /\ is_char_boundary(buf, r.start)
    /\ is_char_boundary(buf, r.end)

\* Mutant of get_piece_data: the whole buffer, not the piece's range.
get_piece_data_whole_buffer(piece) == buffer_of(piece)

get_piece_data(piece) ==
    LET r == Piece_range(piece) IN SubSeq(buffer_of(piece), r.start + 1, r.end)

get_piece_data_ok(piece) == slice_ok(buffer_of(piece), Piece_range(piece))

NoOffset == Utf8Offset_new(0, 0)

RECURSIVE find_offset_from(_, _)
find_offset_from(idx, unicode_offset) ==
    IF idx > Len(table)
    THEN [err |-> "index out of range", idx |-> 0, off |-> NoOffset]
    ELSE LET piece == table[idx] IN
         IF unicode_offset <= piece.len.utf8
         THEN IF get_piece_data_ok(piece)
              THEN [err |-> "none", idx |-> idx,
                    off |-> Utf8Offset_new(
                                to_byte_offset(get_piece_data(piece), unicode_offset),
                                unicode_offset)]
              ELSE [err |-> "slice", idx |-> idx, off |-> NoOffset]
         ELSE find_offset_from(idx + 1, unicode_offset - piece.len.utf8)

\* Mutant of find_offset: an offset past the end is clamped to the end of
\* the last piece instead of panicking.
find_offset_clamped(unicode_offset) ==
    LET found == find_offset_from(1, unicode_offset)
        piece == table[Len(table)]
    IN  IF found.err = "index out of range" /\ get_piece_data_ok(piece)
        THEN [err |-> "none", idx |-> Len(table), off |-> piece.len]
        ELSE found

\* Mutant of find_offset: a piece is chosen only if the offset is strictly
\* inside it (< where the source has <=).
RECURSIVE find_offset_strict_from(_, _)
find_offset_strict_from(idx, unicode_offset) ==
    IF idx > Len(table)
    THEN [err |-> "index out of range", idx |-> 0, off |-> NoOffset]
    ELSE LET piece == table[idx] IN
         IF unicode_offset < piece.len.utf8
         THEN [err |-> "none", idx |-> idx,
               off |-> Utf8Offset_new(
                           to_byte_offset(get_piece_data(piece), unicode_offset),
                           unicode_offset)]
         ELSE find_offset_strict_from(idx + 1, unicode_offset - piece.len.utf8)

find_offset_strict(unicode_offset) == find_offset_strict_from(1, unicode_offset)

\* (Rust index + 1, offset within that piece), or the panic of the call.
find_offset(unicode_offset) == find_offset_from(1, unicode_offset)

RECURSIVE to_string_from(_, _)
to_string_from(idx, ret) ==
    IF idx > Len(table) THEN ret
    ELSE to_string_from(idx + 1, ret \o get_piece_data(table[idx]))

\* Mutant of to_string: ret = data where the source has ret += data.
to_string_last_only ==
    IF table = <<>> THEN <<>> ELSE get_piece_data(table[Len(table)])

to_string == to_string_from(1, <<>>)

to_string_ok == \A i \in 1..Len(table) : get_piece_data_ok(table[i])

\* Mutant of push_str: the buffer is overwritten, not appended to.
push_str_overwrite(buf, data) == data

\* String += &str.
push_str(buf, data) == buf \o data

\* Mutant of vec_insert: the item goes before index idx0 - 1.
vec_insert_before(v, idx0, item) ==
    SubSeq(v, 1, idx0 - 1) \o <<item>> \o SubSeq(v, idx0, Len(v))

\* Vec::insert at Rust index idx0 (0-based).
vec_insert(v, idx0, item) ==
    SubSeq(v, 1, idx0) \o <<item>> \o SubSeq(v, idx0 + 1, Len(v))

\* Vec::splice(lo..=hi, items) with 1-based lo, hi; it panics unless the
\* range is ordered (lo - 1 <= hi) and inside the vector.
splice_ok(v, lo, hi) == lo - 1 <= hi /\ hi <= Len(v)

\* Mutant of splice: zero-length pieces are left out of the replacement.
splice_skip_empty(v, lo, hi, items) ==
    SubSeq(v, 1, lo - 1) \o SelectSeq(items, LAMBDA p : p.len.byte > 0)
        \o SubSeq(v, hi + 1, Len(v))

\* Mutant of splice: the range taken as lo..hi where the source has lo..=hi.
splice_exclusive(v, lo, hi, items) ==
    SubSeq(v, 1, lo - 1) \o items \o SubSeq(v, hi, Len(v))

splice(v, lo, hi, items) ==
    SubSeq(v, 1, lo - 1) \o items \o SubSeq(v, hi + 1, Len(v))

\* Total character length of the document.
RECURSIVE sum_utf8(_)
sum_utf8(v) == IF v = <<>> THEN 0 ELSE Head(v).len.utf8 + sum_utf8(Tail(v))

\* ------------------------------------------------------------------------
\* Calls.  last is the latest call: its name, arguments, outcome and value.
\* ------------------------------------------------------------------------

Call(op, a, b, data, res, ret) ==
    [op |-> op, a |-> a, b |-> b, data |-> data, res |-> res, ret |-> ret]

\* Texts given to new and to insert_at, as chars.
SrcTexts == {<<>>, <<45796, 97>>}
DataTexts == {<<>>, <<233>>}

\* Offsets tried by the callers: every valid one and one past the end.
Offsets == 0..(sum_utf8(table) + 1)

new(text) ==
    /\ src = text
    /\ added = <<>>
    /\ table = <<[begin |-> 0, len |-> Utf8Offset_from_str(text),
                  location |-> "Original"]>>
    /\ last = Call("new", 0, 0, text, "ok", <<>>)

\* A panic unwinds the caller: no later call is made on the table.
running == last.res = "ok"

\* A call that panicked: nothing is written.
panicked(op, a, b, data, err) ==
    /\ last' = Call(op, a, b, data, err, <<>>)
    /\ UNCHANGED <<src, added, table>>

\* split_piece called outside its preconditions: a debug build panics in
\* the assertion, a release build goes on with wrapped lengths.  The run
\* is not followed past either outcome.
split_failed(op, a, b, data) ==
    \/ panicked(op, a, b, data, "assertion failed")
    \/ panicked(op, a, b, data, "underflow")

insert_at(unicode_offset, data) ==
    LET new_piece == Piece_from_str(data, Len(added))
        found == find_offset(unicode_offset)
        piece_idx == found.idx
        offset == found.off
    IN  IF found.err # "none"
        THEN panicked("insert_at", unicode_offset, 0, data, found.err)
        ELSE IF /\ offset.byte # table[piece_idx].len.byte
                /\ ~split_piece_ok(table[piece_idx], offset)
        THEN split_failed("insert_at", unicode_offset, 0, data)
        ELSE /\ IF offset.byte = table[piece_idx].len.byte
                THEN table' = vec_insert(table, piece_idx, new_piece)
                ELSE LET sp == split_piece(table[piece_idx], offset)
                     IN  table' = splice(table, piece_idx, piece_idx,
                                         <<sp.prev, new_piece, sp.next>>)
             /\ added' = push_str(added, data)
             /\ last' = Call("insert_at", unicode_offset, 0, data, "ok", <<>>)
             /\ UNCHANGED src
             /\ Len(table') <= MaxPieces
             /\ Len(added') <= MaxAdded
             /\ sum_utf8(table') <= MaxChars

remove_range(start_arg, end_arg) ==
    LET fs == find_offset(start_arg)
        fe == find_offset(end_arg)
        table_start == fs.idx
        start == fs.off
        table_end == fe.idx
        end == fe.off
        replace(items) ==
            IF splice_ok(table, table_start, table_end)
            THEN /\ table' = splice(table, table_start, table_end, items)
                 /\ last' = Call("remove_range", start_arg, end_arg, <<>>, "ok", <<>>)
                 /\ UNCHANGED <<src, added>>
                 /\ Len(table') <= MaxPieces
                 /\ sum_utf8(table') <= MaxChars
            ELSE panicked("remove_range", start_arg, end_arg, <<>>, "slice index order")
    IN  IF fs.err # "none"
        THEN panicked("remove_range", start_arg, end_arg, <<>>, fs.err)
        ELSE IF fe.err # "none"
        THEN panicked("remove_range", start_arg, end_arg, <<>>, fe.err)
        ELSE IF table[table_start].len.byte = start.byte
        THEN IF split_piece_ok(table[table_end], end)
             THEN replace(<<split_piece(table[table_end], end).next>>)
             ELSE split_failed("remove_range", start_arg, end_arg, <<>>)
        ELSE IF table[table_end].len.byte = start.byte
        THEN IF split_piece_ok(table[table_start], start)
             THEN replace(<<split_piece(table[table_start], start).prev>>)
             ELSE split_failed("remove_range", start_arg, end_arg, <<>>)
        ELSE IF /\ split_piece_ok(table[table_start], start)
                /\ split_piece_ok(table[table_end], end)
        THEN replace(<<split_piece(table[table_start], start).prev,
                       split_piece(table[table_end], end).next>>)
        ELSE split_failed("remove_range", start_arg, end_arg, <<>>)

to_string_call ==
    /\ IF to_string_ok
       THEN last' = Call("to_string", 0, 0, <<>>, "ok", to_string)
       ELSE last' = Call("to_string", 0, 0, <<>>, "slice", <<>>)
    /\ UNCHANGED <<src, added, table>>

Init == \E text \in SrcTexts : new(str(text))

\* Any call a caller can write, valid or not.
InsertAny == \E k \in Offsets, data \in DataTexts : running /\ insert_at(k, str(data))

RemoveAny == \E a \in Offsets, b \in Offsets : running /\ remove_range(a, b)

Render == running /\ to_string_call

Next == InsertAny \/ RemoveAny \/ Render

Spec == Init /\ [][Next]_vars

\* Callers that keep to the documented preconditions:
\* k <= length for insert_at, start <= end <= length for remove_range.
ValidOffsets == 0..sum_utf8(table)

\* A two-char text whose byte length is that of the first char of the
\* source text.
LongTexts == {<<233, 121>>}

InsertValid ==
    \E k \in ValidOffsets, data \in DataTexts \cup LongTexts :
        running /\ insert_at(k, str(data))

RemoveValid ==
    \E a \in ValidOffsets, b \in ValidOffsets :
        running /\ a <= b /\ remove_range(a, b)

NextValid == InsertValid \/ RemoveValid \/ Render

SpecValid == Init /\ [][NextValid]_vars

\* ------------------------------------------------------------------------
\* Reference model: the document as a plain sequence of chars
\* ------------------------------------------------------------------------

\* The rendered document, char by char.
rendered == chars(to_string)

ref_insert(r, k, s) == SubSeq(r, 1, k) \o s \o SubSeq(r, k + 1, Len(r))

ref_remove(r, a, b) == SubSeq(r, 1, a) \o SubSeq(r, b + 1, Len(r))

core == <<src, added, table>>

\* Byte length of the pieces before index i.
RECURSIVE bytes_before(_)
bytes_before(i) == IF i <= 1 THEN 0 ELSE bytes_before(i - 1) + table[i - 1].len.byte

\* ------------------------------------------------------------------------
\* Properties
\* ------------------------------------------------------------------------

\* C1: under callers that only make valid calls, the text after every
\* insert_at / remove_range equals the reference string edited the same way.
C1_RoundTrip ==
    [][/\ last'.op = "insert_at" =>
            to_string' = str(ref_insert(rendered, last'.a, chars(last'.data)))
       /\ last'.op = "remove_range" =>
            to_string' = str(ref_remove(rendered, last'.a, last'.b))]_vars

\* C2: remove_range(start..end) with start > end fails and changes neither
\* the piece sequence nor src nor added.
C2_ReversedRangeRejected ==
    [][last'.op = "remove_range" /\ last'.a > last'.b =>
            last'.res # "ok" /\ UNCHANGED core]_vars

\* C3: from every reachable state with n chars, insert_at(k, s) with k <= n
\* succeeds and yields r[0..k) + s + r[k..n).
C3_InsertPlacement ==
    [][last'.op = "insert_at" /\ last'.a <= Len(rendered) =>
            /\ last'.res = "ok"
            /\ to_string' = str(ref_insert(rendered, last'.a, chars(last'.data)))]_vars

\* An append at the end of a table that holds a zero-length piece.
C3_Witness ==
    /\ last.op = "insert_at" /\ last.res = "ok" /\ last.data # <<>>
    /\ last.a > 0
    /\ last.a = Len(rendered) - Len(chars(last.data))
    /\ \E i \in 1..Len(table) : table[i].len.utf8 = 0

\* C4: insert_at(k, s) with k > n panics with "index out of range" and
\* leaves the piece sequence, src and added as they were.
C4_InsertOutOfRange ==
    [][last'.op = "insert_at" /\ last'.a > Len(rendered) =>
            last'.res = "index out of range" /\ UNCHANGED core]_vars

C4_Witness ==
    /\ last.op = "insert_at" /\ last.res = "index out of range"
    /\ last.a > Len(rendered) /\ last.data # <<>>
    /\ Len(table) >= 2 /\ added # <<>>

\* C5: remove_range(start..end) with end > n panics with "index out of
\* range" before any mutation, for every start.
C5_RemoveOutOfRange ==
    [][last'.op = "remove_range" /\ last'.b > Len(rendered) =>
            last'.res = "index out of range" /\ UNCHANGED core]_vars

C5_Witness ==
    /\ last.op = "remove_range" /\ last.res = "index out of range"
    /\ last.b > Len(rendered) /\ last.a <= Len(rendered) /\ last.a > 0
    /\ Len(table) >= 2

\* C6: every piece lies inside its buffer, starts and ends on char
\* boundaries, and holds exactly len.utf8 chars.
PieceOk(p) ==
    /\ p.begin + p.len.byte <= Len(buffer_of(p))
    /\ is_char_boundary(buffer_of(p), p.begin)
    /\ is_char_boundary(buffer_of(p), p.begin + p.len.byte)
    /\ Len(chars(get_piece_data(p))) = p.len.utf8

C6_PieceInvariant == \A i \in 1..Len(table) : PieceOk(table[i])

\* The source split between its 3-byte char and the next one, with an
\* inserted 2-byte char in between.
C6_Witness ==
    /\ Len(table) = 3
    /\ table[1] = Piece_new(0, Utf8Offset_new(3, 1), "Original")
    /\ table[2].location = "Added" /\ table[2].len.byte = 2
    /\ table[3] = Piece_new(3, Utf8Offset_new(1, 1), "Original")

\* C7: src never changes; added changes only by a successful insert_at,
\* which appends its text; the bytes of every Added piece stay the same.
C7_BufferEvolution ==
    [][/\ src' = src
       /\ IF last'.op = "insert_at" /\ last'.res = "ok"
          THEN added' = added \o last'.data
          ELSE added' = added
       /\ \A i \in 1..Len(table) :
            table[i].location = "Added" =>
                SubSeq(added', table[i].begin + 1, table[i].begin + table[i].len.byte)
                    = get_piece_data(table[i])]_vars

\* A second non-empty insert: added already held text.
C7_Witness ==
    /\ last.op = "insert_at" /\ last.res = "ok" /\ last.data # <<>>
    /\ Len(added) > Len(last.data)

\* C8: from every reachable state with n chars, remove_range(0..k) with
\* k <= n succeeds and leaves exactly r[k..n).
C8_PrefixRemoval ==
    [][last'.op = "remove_range" /\ last'.a = 0 /\ last'.b <= Len(rendered) =>
            /\ last'.res = "ok"
            /\ to_string' = str(ref_remove(rendered, 0, last'.b))]_vars

\* A prefix of two chars removed across a piece boundary.
C8_Witness ==
    /\ last.op = "remove_range" /\ last.res = "ok"
    /\ last.a = 0 /\ last.b = 2
    /\ Len(table) = 3 /\ rendered = <<97>>
    /\ table[2].location = "Added"

\* C9: split_piece(p, o) with o inside p gives prev = (p.begin, o) and
\* next = (p.begin + o.byte, p.len - o), both at p's location, whose
\* slices concatenate to p's slice.
SplitExact(p, o) ==
    LET sp == split_piece(p, o) IN
    /\ sp.prev.begin = p.begin
    /\ sp.prev.len = o
    /\ sp.next.begin = p.begin + o.byte
    /\ sp.prev.location = p.location
    /\ sp.next.location = p.location
    /\ sp.prev.len.utf8 + sp.next.len.utf8 = p.len.utf8
    /\ sp.prev.len.byte + sp.next.len.byte = p.len.byte
    /\ get_piece_data(sp.prev) \o get_piece_data(sp.next) = get_piece_data(p)

C10_PureRead ==
    [][last'.op = "to_string" =>
            /\ UNCHANGED core
            /\ last'.res = "ok"
            /\ Len(last'.ret) = bytes_before(Len(table) + 1)
            /\ \A i \in 1..Len(table) :
                 SubSeq(last'.ret, bytes_before(i) + 1, bytes_before(i + 1))
                    = SubSeq(buffer_of(table[i]), table[i].begin + 1,
                             table[i].begin + table[i].len.byte)
            /\ last.op = "to_string" => last'.ret = last.ret]_vars

C10_Witness ==
    /\ last.op = "to_string" /\ last.res = "ok"
    /\ Len(table) = 3
    /\ \A i \in 1..3 : table[i].len.byte > 0
    /\ \E i \in 1..3 : table[i].location = "Added"
    /\ \E i \in 1..3 : table[i].location = "Original"

\* Char length of the pieces before index i.
RECURSIVE chars_before(_)
chars_before(i) == IF i <= 1 THEN 0 ELSE chars_before(i - 1) + table[i - 1].len.utf8

\* The last n elements of s.
last_n(s, n) == SubSeq(s, Len(s) - n + 1, Len(s))

\* C11: a valid remove_range(a..b) leaves the first a chars of the text as
\* they were.
C11_PrefixKept ==
    [][last'.op = "remove_range" /\ last'.a <= last'.b /\ last'.b <= Len(rendered) =>
            /\ last'.res = "ok"
            /\ Len(rendered') >= last'.a
            /\ SubSeq(rendered', 1, last'.a) = SubSeq(rendered, 1, last'.a)]_vars

\* C12: a valid remove_range(a..b) drops no char at an offset >= b: the
\* old text from char b on is the tail of the new text.
C12_SuffixKept ==
    [][last'.op = "remove_range" /\ last'.a <= last'.b /\ last'.b <= Len(rendered) =>
            /\ last'.res = "ok"
            /\ Len(rendered') >= Len(rendered) - last'.b
            /\ last_n(rendered', Len(rendered) - last'.b)
                 = last_n(rendered, Len(rendered) - last'.b)]_vars

\* C13: find_offset(k) for k <= n returns the first piece i with
\* k - c <= len.utf8 (c the chars before i), off.utf8 = k - c and off.byte
\* the encoded width of the first off.utf8 chars of the piece; for k > n it
\* panics with "index out of range".
Resolves(k) ==
    LET f == find_offset(k)
        i == f.idx
        data == chars(get_piece_data(table[i]))
    IN  /\ f.err = "none"
        /\ i \in 1..Len(table)
        /\ k - chars_before(i) <= table[i].len.utf8
        /\ \A j \in 1..(i - 1) : k - chars_before(j) > table[j].len.utf8
        /\ f.off.utf8 = k - chars_before(i)
        /\ f.off.byte = Len(str(SubSeq(data, 1, f.off.utf8)))
        /\ f.off.byte <= table[i].len.byte
        /\ is_char_boundary(get_piece_data(table[i]), f.off.byte)

C13_OffsetResolution ==
    /\ \A k \in 0..sum_utf8(table) : Resolves(k)
    /\ \A k \in (sum_utf8(table) + 1)..(sum_utf8(table) + 2) :
            find_offset(k).err = "index out of range"

\* An offset that resolves past two pieces, behind a 3-byte char.
C13_Witness ==
    /\ Len(table) = 3
    /\ \E k \in 0..sum_utf8(table) :
            find_offset(k).idx = 3 /\ find_offset(k).off = Utf8Offset_new(3, 1)

\* The piece an insert_at of the text data makes, given added before the call.
InsertedPiece(data, added_before) ==
    [begin |-> Len(added_before),
     len |-> [utf8 |-> Len(chars(data)), byte |-> Len(data)],
     location |-> "Added"]

\* Byte ranges [begin, begin + len.byte) with no byte in common.
Disjoint(p, q) ==
    p.begin + p.len.byte <= q.begin \/ q.begin + q.len.byte <= p.begin

\* C14: the piece made by a successful insert_at(k, s) is Added, begins at
\* the byte length added had before the call and has the lengths of s;
\* afterwards added[begin .. begin + len.byte) is s and no other Added
\* piece overlaps that range.
C14_InsertedPiece ==
    [][last'.op = "insert_at" /\ last'.res = "ok" =>
         LET np == InsertedPiece(last'.data, added)
             j == find_offset(last'.a).idx + 1
         IN  /\ j \in 1..Len(table')
             /\ table'[j] = np
             /\ SubSeq(added', np.begin + 1, np.begin + np.len.byte) = last'.data
             /\ \A i \in 1..Len(table') :
                    i # j /\ table'[i].location = "Added" => Disjoint(table'[i], np)]_vars

\* A second non-empty insert: the new piece begins behind the first text.
C14_Witness ==
    /\ last.op = "insert_at" /\ last.res = "ok" /\ last.data # <<>>
    /\ \E j \in 1..Len(table) :
            table[j] = Piece_new(2, Utf8Offset_new(2, 1), "Added")
    /\ \E i \in 1..Len(table) :
            table[i] = Piece_new(0, Utf8Offset_new(2, 1), "Added")

SubRange(p, q) ==
    /\ p.location = q.location
    /\ q.begin <= p.begin
    /\ p.begin + p.len.byte <= q.begin + q.len.byte

\* C16: a valid remove_range(a..b), a in piece i and b in piece j, keeps
\* the pieces before i and behind j, in order, and puts at most two
\* pieces, each a part of old piece i or old piece j, in place of i..=j.
C16_RemoveFrame ==
    [][(/\ last'.op = "remove_range" /\ last'.res = "ok"
        /\ last'.a <= last'.b /\ last'.b <= sum_utf8(table)) =>
         LET i == find_offset(last'.a).idx
             j == find_offset(last'.b).idx
             m == Len(table') - Len(table) + (j - i + 1)
         IN  /\ i <= j
             /\ m \in 0..2
             /\ \A k \in 1..(i - 1) : table'[k] = table[k]
             /\ \A k \in (j + 1)..Len(table) : table'[k - (j - i + 1) + m] = table[k]
             /\ \A k \in i..(i + m - 1) :
                    SubRange(table'[k], table[i]) \/ SubRange(table'[k], table[j])]_vars

\* A removal inside the second piece, both of its ends split off.
C16_Witness ==
    /\ last.op = "remove_range" /\ last.res = "ok"
    /\ last.a >= 1 /\ last.a < last.b
    /\ Len(table) = 3
    /\ table[1].location = "Added"
    /\ table[2] = Piece_new(0, Utf8Offset_new(3, 1), "Original")
    /\ table[3] = Piece_new(4, Utf8Offset_new(0, 0), "Original")

\* A valid remove_range whose start is at the exact end of its piece (the
\* "no need to split start" branch) and whose end is at the exact end of
\* its piece.
BoundaryRemove ==
    /\ last'.op = "remove_range" /\ last'.res = "ok"
    /\ last'.a <= last'.b /\ last'.b <= sum_utf8(table)
    /\ find_offset(last'.a).off.utf8 = table[find_offset(last'.a).idx].len.utf8
    /\ find_offset(last'.b).off.utf8 = table[find_offset(last'.b).idx].len.utf8

SpanLen == find_offset(last'.b).idx - find_offset(last'.a).idx + 1

\* C17 as claimed: such a removal replaces the span start_piece..=end_piece
\* with nothing.
C17_SpanReplacedByNothing ==
    [][BoundaryRemove => Len(table') = Len(table) - SpanLen]_vars

\* C17 as the code has it: the span is replaced by exactly one piece, the
\* zero-length trailing remainder of the end piece.
C17_SpanReplacedByEmptyPiece ==
    [][BoundaryRemove =>
         LET i == find_offset(last'.a).idx
             q == table[find_offset(last'.b).idx]
         IN  /\ Len(table') = Len(table) - SpanLen + 1
             /\ table'[i] = [begin |-> q.begin + q.len.byte,
                             len |-> [utf8 |-> 0, byte |-> 0],
                             location |-> q.location]]_vars

\* Two pieces removed up to the end of the source: one empty piece is left.
C17_Witness ==
    /\ last.op = "remove_range" /\ last.res = "ok"
    /\ last.a = 0 /\ last.b = 2
    /\ table = <<Piece_new(4, Utf8Offset_new(0, 0), "Original")>>

\* C18: the table always holds a piece, so offset 0 always resolves (to
\* the first piece) and insert_at(0, s) never panics.
C18_NeverEmpty ==
    /\ Len(table) >= 1
    /\ find_offset(0).err = "none"
    /\ find_offset(0).idx = 1
    /\ (last.op = "insert_at" /\ last.a = 0 => last.res = "ok")

\* A document with a non-empty source, emptied by a removal.
C18_Witness ==
    /\ last.op = "remove_range" /\ last.res = "ok" /\ last.a < last.b
    /\ src # <<>> /\ sum_utf8(table) = 0 /\ Len(table) = 2

\* C19: no call of split_piece made by insert_at or remove_range breaks
\* its preconditions: no assertion fires and no length wraps around.
C19_SplitPreconditions ==
    /\ last.res \notin {"assertion failed", "underflow"}
    /\ \A k \in 0..sum_utf8(table) :
            find_offset(k).err = "none" =>
                split_piece_ok(table[find_offset(k).idx], find_offset(k).off)

\* A removal that split one piece at both of its cursors.
C19_Witness ==
    /\ last.op = "remove_range" /\ last.res = "ok" /\ last.a = 1 /\ last.b = 1
    /\ table = <<Piece_new(0, Utf8Offset_new(3, 1), "Original"),
                 Piece_new(3, Utf8Offset_new(1, 1), "Original")>>

====
